---- MODULE Spec2Model ----
(***************************************************************************)
(* Model of the CSV-to-playlist track-matching engine of myMusic           *)
(* (backend/download_service.py): DownloadService.convert_csv_to_playlist  *)
(* and DownloadService.convert_csv_to_m4a with their scoring helpers.      *)
(*                                                                         *)
(* Text is a sequence of one-character strings, so that lower(), the       *)
(* regular-expression substitutions, split(), find() and the "in" and      *)
(* startswith tests are computed character by character as Python does.    *)
(* Durations of the CSV are kept in milliseconds (the code divides by 1000 *)
(* into a float); Phase-2 scores are kept in thousandths of a point for    *)
(* the same reason.                                                        *)
(***************************************************************************)
EXTENDS Integers, Sequences, FiniteSets, TLC

(***************************************************************************)
(* Python text primitives                                                  *)
(***************************************************************************)
Uppers == <<"A","B","C","D","E","F","G","H","I","J","K","L","M",
            "N","O","P","Q","R","S","T","U","V","W","X","Y","Z">>

Lowers == <<"a","b","c","d","e","f","g","h","i","j","k","l","m",
            "n","o","p","q","r","s","t","u","v","w","x","y","z">>

Digits == {"0","1","2","3","4","5","6","7","8","9"}

SetMin(S) == CHOOSE x \in S : \A y \in S : x <= y

Abs(x) == IF x < 0 THEN 0 - x ELSE x

\* str.lower() on one character
LowerChar(c) ==
    IF \E k \in 1..Len(Uppers) : Uppers[k] = c
    THEN Lowers[CHOOSE k \in 1..Len(Uppers) : Uppers[k] = c]
    ELSE c

\* str.lower()
lower(s) == [k \in 1..Len(s) |-> LowerChar(s[k])]

\* \w of the regular expressions
IsWordChar(c) ==
    \/ \E k \in 1..Len(Uppers) : Uppers[k] = c \/ Lowers[k] = c
    \/ c \in Digits
    \/ c = "_"

\* \s of the regular expressions and the whitespace of split()/strip()
IsSpace(c) == c = " "

KeepChar(c) == IsWordChar(c) \/ IsSpace(c)

\* re.sub(r"[^\w\s]", "", s)
StripPunct(s) == SelectSeq(s, KeepChar)

\* txt[idx : idx + len(kw)] == kw, idx counted from 0
MatchAt(txt, kw, idx) ==
    /\ idx + Len(kw) <= Len(txt)
    /\ SubSeq(txt, idx + 1, idx + Len(kw)) = kw

\* str.find(kw, pos): the lowest index >= pos where kw occurs, else -1
find(txt, kw, pos) ==
    LET hits == {idx \in pos..Len(txt) : MatchAt(txt, kw, idx)}
    IN  IF hits = {} THEN 0 - 1 ELSE SetMin(hits)

\* sub in txt
Contains(txt, sub) == find(txt, sub, 0) >= 0

\* txt.startswith(prefix)
StartsWith(txt, prefix) == MatchAt(txt, prefix, 0)

\* index (from 1) of the first whitespace of s, or Len(s) + 1
FirstSpace(s) ==
    SetMin({k \in 1..Len(s) : IsSpace(s[k])} \cup {Len(s) + 1})

RECURSIVE split(_)
\* str.split(): the maximal runs of non-whitespace
split(s) ==
    IF s = <<>> THEN <<>>
    ELSE IF IsSpace(Head(s)) THEN split(Tail(s))
    ELSE <<SubSeq(s, 1, FirstSpace(s) - 1)>> \o split(SubSeq(s, FirstSpace(s), Len(s)))

RECURSIVE lstrip(_)
lstrip(s) == IF s # <<>> /\ IsSpace(Head(s)) THEN lstrip(Tail(s)) ELSE s

RECURSIVE rstrip(_)
rstrip(s) ==
    IF s # <<>> /\ IsSpace(s[Len(s)]) THEN rstrip(SubSeq(s, 1, Len(s) - 1)) ELSE s

\* str.strip()
strip(s) == rstrip(lstrip(s))

\* ' '.join(parts)
RECURSIVE join(_)
join(parts) ==
    IF parts = <<>> THEN <<>>
    ELSE IF Len(parts) = 1 THEN parts[1]
    ELSE parts[1] \o <<" ">> \o join(Tail(parts))

\* a slice that cuts nothing off
TakeAll(seq, n) == seq

\* seq[:n]
Take(seq, n) == SubSeq(seq, 1, IF Len(seq) < n THEN Len(seq) ELSE n)

(***************************************************************************)
(* Literals of the code                                                    *)
(***************************************************************************)
Unknown == <<"U","n","k","n","o","w","n">>

unknown == <<"u","n","k","n","o","w","n">>

instrumental == <<"i","n","s","t","r","u","m","e","n","t","a","l">>

ShortsTag == <<"#","s","h","o","r","t","s">>

\* the alternatives of r'[,/&]| feat\.| ft\.' (matched with re.I)
ArtistSeparators ==
    { <<",">>, <<"/">>, <<"&">>, <<" ","f","e","a","t",".">>, <<" ","f","t",".">> }

\* spotify_sec is None
None == 0 - 1

(***************************************************************************)
(* Query normalizer                                                        *)
(***************************************************************************)
\* DownloadService.normalize
normalize(text) == StripPunct(lower(text))

\* a search that looks for every keyword from the start of the text
KeywordsAnywhere(txt, keywords, pos) ==
    \A k \in DOMAIN keywords : find(txt, keywords[k], 0) >= 0

RECURSIVE KeywordsFrom(_, _, _)
\* the loop of contains_keywords_in_order from position pos on
KeywordsFrom(txt, keywords, pos) ==
    IF keywords = <<>> THEN TRUE
    ELSE LET idx == find(txt, Head(keywords), pos)
         IN  IF idx < 0 THEN FALSE
             ELSE KeywordsFrom(txt, Tail(keywords), idx + Len(Head(keywords)))

\* DownloadService.contains_keywords_in_order
contains_keywords_in_order(candidate_title, keywords) ==
    KeywordsFrom(normalize(candidate_title), keywords, 0)

\* re.split(r'[,/&]| feat\.| ft\.', artist_raw, flags=re.I)[0].strip()
PrimaryArtist(artist_raw) ==
    LET low  == lower(artist_raw)
        cuts == {idx \in 0..Len(low) : \E sep \in ArtistSeparators : MatchAt(low, sep, idx)}
    IN  strip(IF cuts = {} THEN artist_raw ELSE SubSeq(artist_raw, 1, SetMin(cuts)))

(***************************************************************************)
(* Phase-1 scorer                                                          *)
(***************************************************************************)
\* sum(1 for word in words if word in text)
MatchedWords(words, text) ==
    Cardinality({k \in 1..Len(words) : Contains(text, words[k])})

\* Title matching that gives a title starting with the row's title the points of
\* one that contains it
TitlePointsContained(vid_title, safe_title) ==
    LET vid_title_lower  == lower(vid_title)
        safe_title_lower == lower(safe_title)
        title_words      == split(safe_title_lower)
        matched_words    == MatchedWords(title_words, vid_title_lower)
    IN  IF Contains(vid_title_lower, safe_title_lower) THEN <<30, 1>>
        ELSE IF matched_words > 0 THEN <<matched_words * 20, Len(title_words)>> ELSE <<0, 1>>

\* Title matching: <<numerator, denominator>> of the points added
TitlePoints(vid_title, safe_title) ==
    LET vid_title_lower  == lower(vid_title)
        safe_title_lower == lower(safe_title)
        title_words      == split(safe_title_lower)
        matched_words    == MatchedWords(title_words, vid_title_lower)
    IN  IF Contains(vid_title_lower, safe_title_lower)
        THEN IF StartsWith(vid_title_lower, safe_title_lower) THEN <<40, 1>> ELSE <<30, 1>>
        ELSE IF matched_words > 0 THEN <<matched_words * 20, Len(title_words)>> ELSE <<0, 1>>

\* Artist matching: <<numerator, denominator>> of the points added
ArtistPoints(uploader, safe_artist) ==
    LET uploader_lower == lower(uploader)
        artist_words   == split(lower(safe_artist))
        matched_words  == MatchedWords(artist_words, uploader_lower)
    IN  IF safe_artist # <<>> /\ lower(safe_artist) # unknown
        THEN IF Contains(uploader_lower, lower(safe_artist)) THEN <<30, 1>>
             ELSE IF matched_words > 0 THEN <<matched_words * 15, Len(artist_words)>>
             ELSE <<0, 1>>
        ELSE <<0, 1>>

\* Duration matching without the test of the window
DurationPointsAnyLength(duration, spotify_ms, duration_min, duration_max) ==
    20 + (IF spotify_ms # None /\ spotify_ms # 0
          THEN IF Abs(duration * 1000 - spotify_ms) <= 5000 THEN 10
               ELSE IF Abs(duration * 1000 - spotify_ms) <= 10000 THEN 5
               ELSE 0
          ELSE 0)

\* Duration matching that adds the 5 points of a close match to the 10 of a very
\* close one
DurationPointsCumulative(duration, spotify_ms, duration_min, duration_max) ==
    IF duration >= duration_min /\ duration <= duration_max
    THEN 20 + (IF spotify_ms # None /\ spotify_ms # 0
               THEN (IF Abs(duration * 1000 - spotify_ms) <= 5000 THEN 10 ELSE 0)
                    + (IF Abs(duration * 1000 - spotify_ms) <= 10000 THEN 5 ELSE 0)
               ELSE 0)
    ELSE 0

\* Duration matching: the points added (duration in seconds, spotify_ms in ms)
DurationPoints(duration, spotify_ms, duration_min, duration_max) ==
    IF duration >= duration_min /\ duration <= duration_max
    THEN 20 + (IF spotify_ms # None /\ spotify_ms # 0
               THEN IF Abs(duration * 1000 - spotify_ms) <= 5000 THEN 10
                    ELSE IF Abs(duration * 1000 - spotify_ms) <= 10000 THEN 5
                    ELSE 0
               ELSE 0)
    ELSE 0

\* DownloadService.score_phase1_result: int() of the sum of the three parts
score_phase1_result(vid_title, uploader, duration, safe_title, safe_artist, spotify_ms, duration_min, duration_max) ==
    LET t == TitlePoints(vid_title, safe_title)
        a == ArtistPoints(uploader, safe_artist)
        d == DurationPoints(duration, spotify_ms, duration_min, duration_max)
    IN  ((t[1] * a[2] + a[1] * t[2] + d * t[2] * a[2]) \div (t[2] * a[2]))

(***************************************************************************)
(* Thresholds and sizes of the code                                        *)
(***************************************************************************)
\* if phase1_score >= 70
Phase1Accept == 70

\* if score >= 90 (early exit of Phase 2)
EarlyExit == 90

\* [:3] of the wide search and ThreadPoolExecutor(max_workers=3)
FanOut == 3

\* spotify_sec = int(spotify_ms) / 1000
Milli == 1000

(***************************************************************************)
(* Bounds of the model and the catalogue the inputs are drawn from         *)
(***************************************************************************)
\* the most rows of a job
MaxRows == 2

\* the most rows of a job explored with every answer to its wide searches
FewRows == 1

\* the most keywords of a call of contains_keywords_in_order
MaxKeywords == 3

\* a CSV row: the raw fields (<<>> is an empty or missing field, None a
\* missing or non-numeric 'Duration (ms)')
RowYo == [track_name |-> <<"Y","o">>, artist_name |-> <<"A","b">>,
          album_name |-> <<"L","p">>, duration_ms |-> 125000]

RowNoArtist == [track_name |-> <<"Y","o">>, artist_name |-> <<>>,
                album_name |-> <<>>, duration_ms |-> None]

RowCatalogue == {RowYo, RowNoArtist}

\* a row whose reference duration is 140 s
RowLong == [track_name |-> <<"Y","o">>, artist_name |-> <<"A","b">>,
            album_name |-> <<"L","p">>, duration_ms |-> 140000]

\* a row whose title signals an instrumental
RowInst == [track_name |-> <<"Y","o"," ","I","n","s","t","r","u","m","e","n","t","a","l">>,
            artist_name |-> <<"A","b">>, album_name |-> <<"L","p">>, duration_ms |-> 125000]

\* a row with an artist and no 'Duration (ms)'
RowNoRef == [track_name |-> <<"Y","o">>, artist_name |-> <<"A","b">>,
             album_name |-> <<"L","p">>, duration_ms |-> None]

\* every row a job of the model may hold
AllRows == RowCatalogue \cup {RowLong, RowInst, RowNoRef}

\* a video of the platform, as a search entry and as fetched metadata
\* (webpage_url: "watch", "shorts", or "absent" when the key is missing)
VidA == [id |-> "a", title |-> <<"Y","o"," ","-"," ","A","b">>,
         uploader |-> <<"A","b">>, duration |-> 126, webpage_url |-> "watch"]

VidB == [id |-> "b", title |-> <<"Y","o">>,
         uploader |-> <<"A","b">>, duration |-> 400, webpage_url |-> "absent"]

VidC == [id |-> "c", title |-> <<"Y","o"," ","(","L","i","v","e",")">>,
         uploader |-> <<"A","b","V","E","V","O">>, duration |-> 125, webpage_url |-> "watch"]

VidD == [id |-> "d", title |-> <<"M","y"," ","Y","o">>,
         uploader |-> <<"A","b">>, duration |-> 140, webpage_url |-> "watch"]

\* an entry whose JSON has no 'id'
VidNoId == [id |-> "", title |-> <<"Y","o">>,
            uploader |-> <<"A","b">>, duration |-> 125, webpage_url |-> "absent"]

\* {} : what .get() reads from an empty top entry
EmptyEntry == [id |-> "", title |-> <<>>, uploader |-> <<>>, duration |-> 0,
               webpage_url |-> "absent"]

Videos == {VidA, VidB, VidC, VidD, VidNoId}

live == <<"l","i","v","e">>

\* the variants argument: [''] and ['', 'live']
VariantLists == { << <<>> >>, << <<>>, live >> }

\* (duration_min, duration_max)
Windows == { <<60, 300>> }

\* os.path.splitext(os.path.basename(csv_path))[0]
playlist_name == <<"c","s","v">>

RECURSIVE SeqsUpTo(_, _)
\* the sequences over S of length 1..n
SeqsUpTo(S, n) ==
    IF n = 0 THEN {}
    ELSE LET shorter == SeqsUpTo(S, n - 1)
         IN  {<<x>> : x \in S} \cup shorter \cup {Append(s, x) : s \in shorter, x \in S}

(***************************************************************************)
(* State of one conversion job                                             *)
(***************************************************************************)
VARIABLES
    mode,               \* "playlist": convert_csv_to_playlist, "download": convert_csv_to_m4a
    provider,           \* which answers the provider (yt-dlp) may give
    run,                \* 1 for the first job, 2 for the job run after it
    previous,           \* what the first job returned, once a second one runs
    rows,               \* rows = list(csv.DictReader(...))
    variants,           \* the variants argument
    window,             \* <<duration_min, duration_max>>
    pc,                 \* the call the job is blocked on, or "loop", "done", "aborted"
    i,                  \* for i, row in enumerate(rows, start=1)
    vi,                 \* position of "for variant in search_variants"
    search_variants,
    top,
    phase1_score,
    futures,            \* future_to_entry: per entry the state of its future
    yielded,            \* the futures as_completed has handed to the loop
    info,               \* info = future.result() of the last of them
    scored,
    found_excellent_match,
    excellent,          \* excellent_track / excellent_url
    download_spec,
    best_track,
    best_file,
    tracks,
    downloaded,
    not_found_songs,
    archive,            \* the ids recorded in downloaded.txt
    progress,           \* the last progress_callback(current, total, message)
    calls,              \* provider calls issued for the current (row, variant)
    call,               \* one call of a helper on its own: the function, its
                        \* arguments and, once it has returned, what it returned
    app,                \* the progress dictionaries of app.py, its clock, and the
                        \* position of each thread that runs a job of the server
    events              \* what has happened to the current row so far (a history of
                        \* the run, not a variable of the code): "top" once a cheap
                        \* search listed a result, "candidates" once a wide search
                        \* listed a candidate, "failed" once the download of an
                        \* accepted candidate ended with an error

vars == <<mode, provider, run, previous, rows, variants, window, pc, i, vi, search_variants, top, phase1_score,
          futures, yielded, info, scored, found_excellent_match, excellent, download_spec,
          best_track, best_file, tracks, downloaded, not_found_songs, archive, progress, calls,
          call, app, events>>

\* what a job never assigns: its inputs, its provider and the record of the job before it
\* (and call, app: a job is no call of a helper on its own and no server)
inputs == <<mode, provider, run, previous, rows, variants, window, call, app>>

\* the accumulators of the job and what a row leaves behind
results == <<tracks, downloaded, not_found_songs, archive>>

\* the locals of Phase 2
phase2 == <<futures, yielded, info, scored, found_excellent_match, excellent>>

duration_min == window[1]

duration_max == window[2]

total == Len(rows)

(***************************************************************************)
(* The locals derived from a row at the top of the row loop                *)
(***************************************************************************)
title(row) == IF row.track_name # <<>> THEN row.track_name ELSE Unknown

artist_raw(row) == IF row.artist_name # <<>> THEN row.artist_name ELSE Unknown

artist_primary(row) == PrimaryArtist(artist_raw(row))

safe_artist(row) == StripPunct(artist_primary(row))

album(row) == IF row.album_name # <<>> THEN row.album_name ELSE playlist_name

\* spotify_sec, in milliseconds: None, or int(spotify_ms)
spotify_ms(row) == row.duration_ms

\* "if spotify_sec:" : a reference duration is known and not 0
HasReference(row) == spotify_ms(row) # None /\ spotify_ms(row) # 0

safe_title(row) == StripPunct(title(row))

\* the insert applied to the list of the caller, as it is without the copy
VariantsShared(row, vs) ==
    IF Contains(lower(title(row)), instrumental) THEN <<instrumental>> \o vs ELSE vs

\* the variants argument once the row has built its search_variants: the insert is
\* applied to variants.copy(), the list of the caller is as it was
VariantsAfterRow(row, vs) == vs

\* 'instrumental' added after the configured variants
SearchVariantsAppended(row, vs) ==
    IF Contains(lower(title(row)), instrumental) THEN Append(vs, instrumental) ELSE vs

\* search_variants = variants.copy(), with 'instrumental' inserted at 0
SearchVariantsOf(row, vs) ==
    IF Contains(lower(title(row)), instrumental) THEN <<instrumental>> \o vs ELSE vs

\* q = ' '.join(parts)
Query(row, variant) ==
    join(<<safe_title(row)>>
         \o (IF safe_artist(row) # <<>> /\ lower(safe_artist(row)) # unknown
             THEN <<safe_artist(row)>> ELSE <<>>)
         \o (IF variant # <<>> THEN <<variant>> ELSE <<>>))

\* entry.get('webpage_url', f"https://www.youtube.com/watch?v={id}")
Url(v) == IF v.webpage_url = "absent" THEN <<"watch", v.id>> ELSE <<v.webpage_url, v.id>>

\* the locals of the row loop, computed once per row of the catalogue
RowLocals ==
    [row \in AllRows |->
        [title |-> title(row), artist_primary |-> artist_primary(row),
         album |-> album(row), file_title |-> strip(StripPunct(title(row)))]]

\* a track_info that takes title and artist from the fetched video
TrackInfoFromCandidate(row, v) ==
    [title |-> v.title, artist |-> v.uploader, album |-> RowLocals[row].album,
     url |-> Url(v), thumbnail |-> v.id, duration |-> v.duration]

\* best_track / track_info (the thumbnail is derived from the id)
TrackInfo(row, v) ==
    [title |-> RowLocals[row].title, artist |-> RowLocals[row].artist_primary,
     album |-> RowLocals[row].album,
     url |-> Url(v), thumbnail |-> v.id, duration |-> v.duration]

\* best_track = None
NoTrack ==
    [title |-> <<>>, artist |-> <<>>, album |-> <<>>,
     url |-> <<"none", "">>, thumbnail |-> "", duration |-> 0]

\* an entry of not_found_songs numbered as enumerate(rows) without start=1 would
NotFoundEntryFromZero(row, n, error) ==
    [track_name |-> RowLocals[row].title, artist_name |-> RowLocals[row].artist_primary,
     album_name |-> RowLocals[row].album, track_number |-> n - 1, error |-> error]

\* an entry of not_found_songs
NotFoundEntry(row, n, error) ==
    [track_name |-> RowLocals[row].title, artist_name |-> RowLocals[row].artist_primary,
     album_name |-> RowLocals[row].album, track_number |-> n, error |-> error]

\* os.path.basename(best_file): f"{i:03d} - {file_title}" + f" - {variant}" + ".m4a"
FileName(row, n, variant) ==
    [track_number |-> n, file_title |-> RowLocals[row].file_title, variant |-> variant]

(***************************************************************************)
(* What the provider (yt-dlp) may answer                                   *)
(***************************************************************************)
VideoOrder == <<VidA, VidB, VidC, VidD, VidNoId>>

\* the entries of a search answer: some videos, in the catalogue's order
RECURSIVE Pick(_, _)
Pick(S, k) ==
    IF k > Len(VideoOrder) THEN <<>>
    ELSE (IF k \in S THEN <<VideoOrder[k]>> ELSE <<>>) \o Pick(S, k + 1)

\* a search whose output is empty or cannot be parsed: no entries
Malformed == [kind |-> "malformed", entries |-> <<>>]

\* subprocess.TimeoutExpired, unparseable or empty output, or a list of entries
Failures == {[kind |-> "timeout", entries |-> <<>>], Malformed}

\* a provider free to answer every call differently; kind "job" or "fanout"
FreeProvider(kind) ==
    [kind |-> kind, cheap |-> Malformed, wide |-> Malformed, fetch |-> "info",
     download |-> "ok"]

\* a provider that returns fixed data for every search, fetch and download
Stub(cheap, wide) ==
    [kind |-> "stub", cheap |-> cheap, wide |-> wide, fetch |-> "info", download |-> "ok"]

\* the top result is the official video
StubTop == Stub([kind |-> "ok", entries |-> <<VidA>>], Malformed)

\* no top result; the wide search lists one video that survives the filters
StubOne == Stub(Malformed, [kind |-> "ok", entries |-> <<VidB, VidD>>])

\* no top result; the wide search lists two videos that score 90 or more
StubRace == Stub(Malformed, [kind |-> "ok", entries |-> <<VidA, VidC, VidD>>])

\* no top result; the wide search lists more videos than are fetched
StubLong == Stub(Malformed, [kind |-> "ok", entries |-> VideoOrder])

\* the answers of the ytsearch1 call
CheapResponses ==
    IF provider.kind = "stub" THEN {provider.cheap}
    ELSE Failures \cup {[kind |-> "ok", entries |-> <<v>>] : v \in Videos}

\* provider "fanout": a wide search may list any 1..3 videos of the catalogue
AllWideLists ==
    {Pick(S, 1) : S \in {T \in SUBSET (1..Len(VideoOrder)) : Cardinality(T) \in 1..FanOut}}

\* provider "job": a wide search lists one of these
JobWideLists == { <<VidA>>, <<VidB, VidD>>, <<VidA, VidC, VidD>> }

\* the answers of the ytsearch3 call
WideResponses ==
    IF provider.kind = "stub" THEN {provider.wide}
    ELSE Failures \cup
         {[kind |-> "ok", entries |-> es] :
             es \in IF provider.kind = "fanout" THEN AllWideLists ELSE JobWideLists}

\* how the metadata fetch of one video may end
FetchKinds == {"info", "age", "unparseable", "empty", "timeout"}

\* the ends of a metadata fetch under the provider
FetchAnswers == IF provider.kind = "stub" THEN {provider.fetch} ELSE FetchKinds

\* how the download of one spec may end
DownloadKinds == {"ok", "nofile", "error", "age", "timeout"}

\* the ends of a download under the provider, each with the id of the video the
\* spec resolves to: the url's own, or the top result of the "ytsearch1:" spec
DownloadAnswers(spec) ==
    IF spec.kind = "url"
    THEN {<<kind, spec.url[2]>> :
            kind \in IF provider.kind = "stub" THEN {provider.download} ELSE DownloadKinds}
    ELSE IF provider.kind # "stub"
    THEN {<<kind, v.id>> : kind \in DownloadKinds, v \in Videos}
    ELSE IF provider.cheap.entries = <<>> THEN {<<"nofile", "">>}
    ELSE {<<provider.download, provider.cheap.entries[1].id>>}

\* best_file = None
NoFile == [track_number |-> 0, file_title |-> <<>>, variant |-> <<>>]

(***************************************************************************)
(* Phase-2 filters and score                                               *)
(***************************************************************************)
\* first_words = self.normalize(title).split()[:5]
first_words(row) == Take(split(normalize(title(row))), 5)

\* the five "Basic filters", each TRUE when it lets the fetched metadata pass
DurationFilter(fetched, dmin, dmax) == ~(fetched.duration < dmin \/ fetched.duration > dmax)

ShortsFilter(fetched) ==
    ~(fetched.webpage_url = "shorts" \/ Contains(lower(fetched.title), ShortsTag))

ArtistFilter(fetched, row) ==
    ~(lower(safe_artist(row)) # <<>>
        /\ ~Contains(lower(fetched.uploader), lower(safe_artist(row))))

VariantFilter(fetched, variant) ==
    ~(variant # <<>> /\ ~Contains(lower(fetched.title), lower(variant)))

KeywordFilter(fetched, row) == contains_keywords_in_order(fetched.title, first_words(row))

\* TRUE when no filter drops the fetched metadata ("continue")
PassesFilters(fetched, row, variant, dmin, dmax) ==
    /\ DurationFilter(fetched, dmin, dmax)
    /\ ShortsFilter(fetched)
    /\ ArtistFilter(fetched, row)
    /\ VariantFilter(fetched, variant)
    /\ KeywordFilter(fetched, row)

\* a Phase-2 score that leaves the distance to the reference duration out
Phase2ScoreOfTitle(fetched, row) ==
    (IF StartsWith(lower(fetched.title), lower(safe_title(row))) THEN 100 ELSE 80) * Milli

\* "Score the match", in thousandths of a point
Phase2Score(fetched, row) ==
    (IF StartsWith(lower(fetched.title), lower(safe_title(row))) THEN 100 ELSE 80) * Milli
    - (IF HasReference(row) THEN Abs(fetched.duration * Milli - spotify_ms(row)) ELSE 0)

\* the (score, track_info) a fetched video is scored as
Scored(fetched, row) ==
    [score |-> Phase2Score(fetched, row), track |-> TrackInfo(row, fetched)]

\* an early exit taken by a perfect score only
IsPerfect(score) == score >= 100 * Milli

\* if score >= 90: the early exit of Phase 2
IsExcellent(score) == score >= EarlyExit * Milli

\* Phase 1 accepting above the threshold only
AcceptedAbove(score) == score > Phase1Accept

\* if phase1_score >= 70: the top result of Phase 1 is good enough
Accepted(score) == score >= Phase1Accept

\* the variants a row can be searched under
AllVariants == {instrumental} \cup UNION {{vs[k] : k \in DOMAIN vs} : vs \in VariantLists}

\* the Phase-1 score of every (row, top entry, window) of the catalogue
Phase1Table ==
    [row \in AllRows, t \in Videos \cup {EmptyEntry}, w \in Windows |->
        score_phase1_result(t.title, t.uploader, t.duration, safe_title(row),
                            safe_artist(row), spotify_ms(row), w[1], w[2])]

\* the Phase-2 verdict of every (row, fetched info, variant, window) of the catalogue
Phase2Table ==
    [row \in AllRows, fetched \in Videos, variant \in AllVariants, w \in Windows |->
        [kept   |-> PassesFilters(fetched, row, variant, w[1], w[2]),
         scored |-> Scored(fetched, row)]]

\* a selection that takes the first survivor, whatever its score
FirstScored(sc) == sc[1]

\* max(scored, key=lambda x: x[0]): the first entry with the highest score
MaxScored(sc) ==
    sc[SetMin({k \in 1..Len(sc) : \A j \in 1..Len(sc) : sc[j].score <= sc[k].score})]

(***************************************************************************)
(* The job                                                                 *)
(***************************************************************************)
\* info = None: fetch_metadata returned None
NoInfo == EmptyEntry

\* download_spec before it is assigned
NoSpec == [kind |-> "none", url |-> <<"none", "">>]

\* no provider call issued yet for the (row, variant)
NoCalls == [cheap |-> 0, wide |-> 0, fetch |-> 0]

Modes == {"playlist", "download"}

\* no helper is called on its own
NoCall == [fn |-> "none"]

\* no server is running
NoApp == [now |-> 0]

\* previous before a second job runs
NoPrevious ==
    [rows |-> <<>>, removed |-> 0, tracks |-> <<>>, downloaded |-> <<>>,
     not_found_songs |-> <<>>]

InitJob(ms, ps, rs, n) ==
    /\ mode \in ms
    /\ provider \in ps
    /\ run = 1
    /\ previous = NoPrevious
    /\ rows \in {<<>>} \cup SeqsUpTo(rs, n)
    /\ variants \in VariantLists
    /\ window \in Windows
    /\ pc = "loop"
    /\ i = 0
    /\ vi = 0
    /\ search_variants = <<>>
    /\ top = EmptyEntry
    /\ phase1_score = 0
    /\ futures = <<>>
    /\ yielded = {}
    /\ info = NoInfo
    /\ scored = <<>>
    /\ found_excellent_match = FALSE
    /\ excellent = NoTrack
    /\ download_spec = NoSpec
    /\ best_track = NoTrack
    /\ best_file = NoFile
    /\ tracks = <<>>
    /\ downloaded = <<>>
    /\ not_found_songs = <<>>
    /\ archive = {}
    /\ progress = [current |-> 0, total |-> 0, message |-> "none"]
    /\ calls = NoCalls
    /\ call = NoCall
    /\ app = NoApp
    /\ events = {}

\* for i, row in enumerate(rows, start=1): the top of the row loop
NextRow ==
    /\ pc = "loop"
    /\ i < total
    /\ i' = i + 1
    /\ search_variants' = SearchVariantsOf(rows[i + 1], variants)
    /\ variants' = VariantsAfterRow(rows[i + 1], variants)
    /\ best_track' = NoTrack
    /\ best_file' = NoFile
    /\ vi' = 0
    /\ pc' = "for_variant"
    /\ events' = {}
    /\ UNCHANGED <<mode, provider, run, previous, rows, window, call, app>>
    /\ UNCHANGED <<top, phase1_score, phase2, download_spec, results, progress, calls>>

\* the rows are exhausted: return {...}
Return ==
    /\ pc = "loop"
    /\ i = total
    /\ pc' = "done"
    /\ UNCHANGED <<inputs, i, vi, search_variants, top, phase1_score, phase2, download_spec,
                   best_track, best_file, results, progress, calls, events>>

\* for variant in search_variants: the next variant, with its "Searching" notification,
\* or the end of the loop.  The locals of the loop body are dead here (each is assigned
\* again before the body reads it), so the model lets them start every iteration alike
ForVariant ==
    /\ pc = "for_variant"
    /\ IF vi < Len(search_variants)
       THEN /\ vi' = vi + 1
            /\ pc' = "phase1"
            /\ progress' = [current |-> i, total |-> total, message |-> "Searching"]
       ELSE /\ pc' = "row_end"
            /\ UNCHANGED <<vi, progress>>
    /\ top' = EmptyEntry
    /\ phase1_score' = 0
    /\ info' = NoInfo
    /\ scored' = <<>>
    /\ found_excellent_match' = FALSE
    /\ excellent' = NoTrack
    /\ download_spec' = NoSpec
    /\ calls' = NoCalls
    /\ UNCHANGED <<inputs, i, search_variants, futures, yielded,
                   best_track, best_file, results, events>>

\* Phase 1: the ytsearch1 call returns resp; the top result is scored
Phase1Search ==
    /\ pc = "phase1"
    /\ \E resp \in CheapResponses :
        LET row   == rows[i]
            t     == IF resp.entries # <<>> THEN resp.entries[1] ELSE EmptyEntry
            score == Phase1Table[row, t, window]
        IN  /\ calls' = [calls EXCEPT !.cheap = calls.cheap + 1]
            /\ events' = IF resp.entries # <<>> THEN events \cup {"top"} ELSE events
            /\ IF resp.kind = "timeout"
               THEN /\ pc' = "aborted"
                    /\ UNCHANGED <<top, phase1_score, download_spec, best_track>>
               ELSE /\ top' = t
                    /\ phase1_score' = score
                    /\ IF Accepted(score)
                       THEN IF mode = "playlist"
                            THEN /\ best_track' = IF t.id # "" THEN TrackInfo(row, t) ELSE best_track
                                 /\ pc' = IF t.id # "" THEN "row_end" ELSE "for_variant"
                                 /\ UNCHANGED download_spec
                            ELSE /\ download_spec' = [kind |-> "url", url |-> Url(t)]
                                 /\ pc' = "download"
                                 /\ UNCHANGED best_track
                       ELSE /\ pc' = "phase2"
                            /\ UNCHANGED <<download_spec, best_track>>
    /\ UNCHANGED <<inputs, i, vi, search_variants, phase2, best_file, results, progress>>

\* Phase 2: the ytsearch3 call returns resp; the fetches of its entries are submitted
Phase2Search ==
    /\ pc = "phase2"
    /\ \E resp \in WideResponses :
        LET ids == Take(resp.entries, FanOut)
        IN  /\ calls' = [calls EXCEPT !.wide = calls.wide + 1]
            /\ events' = IF ids # <<>> THEN events \cup {"candidates"} ELSE events
            /\ IF resp.kind = "timeout"
               THEN /\ pc' = "aborted"
                    /\ UNCHANGED <<phase2, download_spec>>
               ELSE IF ids = <<>>
               THEN /\ IF mode = "playlist"
                       THEN /\ pc' = "for_variant"
                            /\ UNCHANGED download_spec
                       ELSE /\ pc' = "download"
                            /\ download_spec' = [kind |-> "ytsearch1", url |-> <<"none", "">>]
                    /\ UNCHANGED phase2
               ELSE /\ futures' = [k \in 1..Len(ids) |->
                                     [entry |-> ids[k], st |-> "pending"]]
                    /\ yielded' = {}
                    /\ scored' = <<>>
                    /\ found_excellent_match' = FALSE
                    /\ excellent' = NoTrack
                    /\ pc' = "fetching"
                    /\ UNCHANGED info
                    /\ UNCHANGED download_spec
    /\ UNCHANGED <<inputs, i, vi, search_variants, top, phase1_score, best_track, best_file,
                   results, progress>>

\* a worker thread of the executor takes entry k from the queue
FetchStart(k) ==
    /\ pc \in {"fetching", "shutdown", "unwind"}
    /\ futures[k].st = "pending"
    /\ futures' = [futures EXCEPT ![k].st = "running"]
    /\ calls' = IF futures[k].entry.id # ""
                THEN [calls EXCEPT !.fetch = calls.fetch + 1] ELSE calls
    /\ UNCHANGED <<inputs, pc, i, vi, search_variants, top, phase1_score, yielded, info, scored,
                   found_excellent_match, excellent, download_spec, best_track, best_file,
                   results, progress, events>>

\* what fetch_metadata returns (or raises) for an entry when yt-dlp ends as kind
FetchResult(entry, kind) ==
    IF entry.id = "" THEN [kind |-> "none", vid |-> EmptyEntry]
    ELSE IF kind = "timeout" THEN [kind |-> "exc", vid |-> EmptyEntry]
    ELSE IF kind = "info" THEN [kind |-> "info", vid |-> entry]
    ELSE [kind |-> "none", vid |-> EmptyEntry]

\* fetch_metadata of entry k ends and its future is finished.  What it returned is
\* read by nobody before future.result(): the model draws it there (Collect)
FetchReturn(k) ==
    /\ pc \in {"fetching", "shutdown", "unwind"}
    /\ futures[k].st = "running"
    /\ futures' = [futures EXCEPT ![k].st = "finished"]
    /\ UNCHANGED <<inputs, pc, i, vi, search_variants, top, phase1_score, yielded, info, scored,
                   found_excellent_match, excellent, download_spec, best_track, best_file,
                   results, progress, calls, events>>

\* the info is appended to scored: it passed the filters and, in playlist mode, has an id
Appended(fetched, row, variant) ==
    /\ Phase2Table[row, fetched, variant, window].kept
    /\ (mode = "playlist" => fetched.id # "")

\* for f in future_to_entry: f.cancel()  (only a future not yet running is cancelled)
Cancelled(fs) ==
    [k \in DOMAIN fs |-> IF fs[k].st = "pending" THEN [fs[k] EXCEPT !.st = "cancelled"]
                         ELSE fs[k]]

\* one iteration of "for future in as_completed(future_to_entry)" on finished future k
Collect(k) ==
    /\ pc = "fetching"
    /\ futures[k].st = "finished"
    /\ k \notin yielded
    /\ yielded' = yielded \cup {k}
    /\ \E kind \in FetchAnswers :
       LET row     == rows[i]
           variant == search_variants[vi]
           res     == FetchResult(futures[k].entry, kind)
           last    == yielded' = DOMAIN futures
       IN  IF res.kind = "exc"
           THEN \* future.result() raises: the with block is left by the exception
                /\ pc' = "unwind"
                /\ UNCHANGED <<futures, info, scored, found_excellent_match, excellent>>
           ELSE /\ info' = IF res.kind = "none" THEN NoInfo ELSE res.vid
                /\ IF res.kind = "none" \/ ~Appended(res.vid, row, variant)
                   THEN /\ pc' = IF last THEN "shutdown" ELSE "fetching"
                        /\ UNCHANGED <<futures, scored, found_excellent_match, excellent>>
                   ELSE LET new == Phase2Table[row, res.vid, variant, window].scored
                        IN  /\ scored' = Append(scored, new)
                            /\ IF IsExcellent(new.score)
                               THEN /\ excellent' = new.track
                                    /\ found_excellent_match' = TRUE
                                    /\ futures' = Cancelled(futures)
                                    /\ pc' = "shutdown"
                               ELSE /\ pc' = IF last THEN "shutdown" ELSE "fetching"
                                    /\ UNCHANGED <<futures, found_excellent_match,
                                                   excellent>>
    /\ UNCHANGED <<inputs, i, vi, search_variants, top, phase1_score, download_spec,
                   best_track, best_file, results, progress, calls, events>>

\* the with block ends: executor.shutdown(wait=True) returns once no fetch is
\* queued or running; then the result of the variant is chosen.  The loop variable
\* info is read by nothing after the loop: the model forgets it here
ExecutorExit ==
    /\ pc \in {"shutdown", "unwind"}
    /\ \A k \in DOMAIN futures : futures[k].st \in {"finished", "cancelled"}
    /\ futures' = <<>>
    /\ yielded' = {}
    /\ info' = NoInfo
    /\ IF pc = "unwind"
       THEN /\ pc' = "aborted"
            /\ UNCHANGED <<best_track, download_spec>>
       ELSE LET chosen == IF found_excellent_match /\ excellent # NoTrack THEN excellent
                          ELSE IF scored # <<>> THEN MaxScored(scored).track
                          ELSE NoTrack
            IN  IF mode = "playlist"
                THEN /\ best_track' = IF chosen # NoTrack THEN chosen ELSE best_track
                     /\ pc' = IF chosen # NoTrack THEN "row_end" ELSE "for_variant"
                     /\ UNCHANGED download_spec
                ELSE /\ download_spec' =
                            IF chosen # NoTrack THEN [kind |-> "url", url |-> chosen.url]
                            ELSE [kind |-> "ytsearch1", url |-> <<"none", "">>]
                     /\ pc' = "download"
                     /\ UNCHANGED best_track
    /\ UNCHANGED <<inputs, i, vi, search_variants, top, phase1_score, scored,
                   found_excellent_match, excellent, best_file, results, progress, calls,
                   events>>

\* the download call ends as kind, unless the archive already lists the video:
\* then yt-dlp skips it, exits 0 and writes no file
DownloadOutcome(id, kind) == IF id \in archive THEN "nofile" ELSE kind

\* "Download": the yt-dlp download call of the variant returns
Download ==
    /\ pc = "download"
    /\ \E answer \in DownloadAnswers(download_spec) :
        LET row == rows[i]
            out == DownloadOutcome(answer[2], answer[1])
        IN  /\ events' = IF out = "error" /\ download_spec.kind = "url"
                          THEN events \cup {"failed"} ELSE events
            /\ IF out = "timeout"
               THEN /\ pc' = "aborted"
                    /\ UNCHANGED <<best_file, results>>
               ELSE IF out = "age"
               THEN /\ not_found_songs' =
                           Append(not_found_songs, NotFoundEntry(row, i, "Age-restricted video"))
                    /\ pc' = "row_end"
                    /\ UNCHANGED <<best_file, tracks, downloaded, archive>>
               ELSE IF out = "error" \/ out = "nofile"
               THEN /\ pc' = "for_variant"
                    /\ UNCHANGED <<best_file, results>>
               ELSE /\ best_file' = FileName(row, i, search_variants[vi])
                    /\ downloaded' = Append(downloaded, best_file')
                    /\ archive' = archive \cup {answer[2]}
                    /\ pc' = "row_end"
                    /\ UNCHANGED <<tracks, not_found_songs>>
    /\ UNCHANGED <<inputs, i, vi, search_variants, top, phase1_score, phase2, download_spec,
                   best_track, progress, calls>>

\* after the variant loop: the row is recorded and its progress notified
EndRow ==
    /\ pc = "row_end"
    /\ IF mode = "playlist"
       THEN /\ tracks' = IF best_track # NoTrack THEN Append(tracks, best_track) ELSE tracks
            /\ not_found_songs' =
                  IF best_track # NoTrack THEN not_found_songs
                  ELSE Append(not_found_songs,
                              NotFoundEntry(rows[i], i, "No valid match found"))
            /\ progress' = [current |-> i, total |-> total, message |-> "Searched"]
       ELSE /\ not_found_songs' =
                  IF best_file # NoFile THEN not_found_songs
                  ELSE Append(not_found_songs, NotFoundEntry(rows[i], i, "No valid download"))
            /\ progress' = [current |-> i, total |-> total, message |-> "Downloaded"]
            /\ UNCHANGED tracks
    /\ pc' = "loop"
    /\ UNCHANGED <<inputs, i, vi, search_variants, top, phase1_score, phase2, download_spec,
                   best_track, best_file, downloaded, archive, calls, events>>

\* the job state a job starts from
Fresh ==
    /\ pc' = "loop"
    /\ i' = 0
    /\ vi' = 0
    /\ search_variants' = <<>>
    /\ top' = EmptyEntry
    /\ phase1_score' = 0
    /\ futures' = <<>>
    /\ yielded' = {}
    /\ info' = NoInfo
    /\ scored' = <<>>
    /\ found_excellent_match' = FALSE
    /\ excellent' = NoTrack
    /\ download_spec' = NoSpec
    /\ best_track' = NoTrack
    /\ best_file' = NoFile
    /\ tracks' = <<>>
    /\ downloaded' = <<>>
    /\ not_found_songs' = <<>>
    /\ archive' = {}
    /\ progress' = [current |-> 0, total |-> 0, message |-> "none"]
    /\ calls' = NoCalls
    /\ events' = {}

\* what the job that has returned hands to the comparison with the next one
Returned(removed) ==
    [rows |-> rows, removed |-> removed, tracks |-> tracks, downloaded |-> downloaded,
     not_found_songs |-> not_found_songs]

\* the same CSV is converted a second time
Rerun ==
    /\ pc = "done"
    /\ run = 1
    /\ run' = 2
    /\ previous' = Returned(0)
    /\ Fresh
    /\ UNCHANGED <<mode, provider, rows, variants, window, call, app>>

\* the removal of row k
Without(seq, k) == SubSeq(seq, 1, k - 1) \o SubSeq(seq, k + 1, Len(seq))

\* the CSV is converted again with one row removed, into a fresh folder
RerunWithout ==
    /\ pc = "done"
    /\ run = 1
    /\ \E k \in 1..Len(rows) :
        /\ rows' = Without(rows, k)
        /\ previous' = Returned(k)
    /\ run' = 2
    /\ Fresh
    /\ UNCHANGED <<mode, provider, variants, window, call, app>>

Workers == \E k \in DOMAIN futures : FetchStart(k) \/ FetchReturn(k)

Loop == \E k \in DOMAIN futures : Collect(k)

NextPlaylist ==
    \/ NextRow
    \/ Return
    \/ ForVariant
    \/ Phase1Search
    \/ Phase2Search
    \/ Workers
    \/ Loop
    \/ ExecutorExit
    \/ EndRow

Next ==
    \/ NextPlaylist
    \/ Download

\* a playlist job (convert_csv_to_playlist)
Spec == InitJob({"playlist"}, {FreeProvider("job")}, RowCatalogue, MaxRows) /\ [][NextPlaylist]_vars

\* a download job (convert_csv_to_m4a)
SpecDownload == InitJob({"download"}, {FreeProvider("job")}, RowCatalogue, MaxRows) /\ [][Next]_vars

\* a playlist job of few rows whose wide searches may list any videos
SpecFanOut ==
    InitJob({"playlist"}, {FreeProvider("fanout")}, RowCatalogue, FewRows) /\ [][NextPlaylist]_vars

\* a playlist job under a fixed provider, converted twice
SpecRerun ==
    InitJob({"playlist"}, {StubTop, StubOne, StubRace}, RowCatalogue, MaxRows)
        /\ [][NextPlaylist \/ Rerun]_vars

\* a download job under a fixed provider with no two candidates to choose between,
\* converted again with one row removed
SpecWithout ==
    InitJob({"download"}, {StubTop, StubOne}, RowCatalogue, MaxRows) /\ [][Next \/ RerunWithout]_vars

\* a job of either mode, of few rows
SpecModes ==
    InitJob(Modes, {FreeProvider("job")}, RowCatalogue, FewRows) /\ [][Next]_vars

\* a playlist job of few rows whose reference duration no video of the catalogue
\* comes within 10 s of: no Phase-2 score reaches 90
SpecSelect ==
    InitJob({"playlist"}, {FreeProvider("fanout")}, {RowLong}, FewRows) /\ [][NextPlaylist]_vars

\* a playlist job of few rows, some with a title that signals an instrumental
SpecVariants ==
    InitJob({"playlist"}, {FreeProvider("job")}, {RowYo, RowInst}, FewRows) /\ [][NextPlaylist]_vars

\* a job of either mode, of few rows with a reference duration near the videos',
\* far from them, or none
SpecEarly ==
    InitJob(Modes, {FreeProvider("job")}, {RowYo, RowLong, RowNoRef}, FewRows) /\ [][Next]_vars

\* a job of either mode under a fixed provider, some rows with a title that signals
\* an instrumental
SpecFrame ==
    InitJob(Modes, {StubTop, StubOne}, {RowYo, RowInst}, MaxRows) /\ [][Next]_vars

\* a playlist job under a fixed provider, every call of which returns; the job
\* thread and the worker threads of the executor keep running
SpecLive ==
    /\ InitJob({"playlist"}, {StubTop, StubOne, StubLong}, {RowYo, RowInst}, MaxRows)
    /\ [][NextPlaylist]_vars
    /\ WF_vars(NextPlaylist)

\* a playlist job whose rows differ in title and can each be found
SpecOrder ==
    InitJob({"playlist"}, {FreeProvider("job")}, {RowYo, RowInst}, MaxRows) /\ [][NextPlaylist]_vars

(***************************************************************************)
(* A helper called on its own: the arguments are drawn from the sets       *)
(* below, the call returns what the helper computes                        *)
(***************************************************************************)
\* titles and uploaders of videos, titles and artists of rows
Sample ==
    [Yesterday |-> <<"Y","e","s","t","e","r","d","a","y">>,
     YesterdayRemastered |->
        <<"Y","e","s","t","e","r","d","a","y"," ","-"," ","T","h","e"," ","B","e",
          "a","t","l","e","s"," ","(","R","e","m","a","s","t","e","r","e","d",")">>,
     YesterdayCover |-> <<"Y","e","s","t","e","r","d","a","y"," ","C","o","v","e","r">>,
     TheBeatles |-> <<"T","h","e"," ","B","e","a","t","l","e","s">>,
     BeatlesFan |-> <<"B","e","a","t","l","e","s"," ","F","a","n">>,
     RandomChannel |-> <<"R","a","n","d","o","m","C","h","a","n","n","e","l">>,
     YoLaTi |-> <<"Y","o"," ","L","a"," ","T","i">>,
     LaYo |-> <<"L","a"," ","Y","o">>,
     MyYo |-> <<"M","y"," ","Y","o">>,
     Yo |-> <<"Y","o">>]

\* the arguments of score_phase1_result
ScoreTitles == {Sample.YesterdayRemastered, Sample.YesterdayCover, Sample.LaYo, Sample.MyYo, Sample.Yo}

ScoreUploaders == {Sample.TheBeatles, Sample.BeatlesFan, Sample.RandomChannel, <<>>}

ScoreDurations == {126, 131, 400}

ScoreRowTitles == {Sample.Yesterday, Sample.YoLaTi, Sample.Yo}

ScoreArtists == {Sample.TheBeatles, Unknown, <<>>}

ScoreReferences == {None, 0, 125000}

ScoreWindows == { <<60, 300>>, <<0, 600>> }

ScoreArgs ==
    [vid_title : ScoreTitles, uploader : ScoreUploaders, duration : ScoreDurations,
     safe_title : ScoreRowTitles, safe_artist : ScoreArtists, spotify_ms : ScoreReferences,
     window : ScoreWindows]

\* every variable of a job, with no job running
NoJob ==
    /\ mode = "playlist"
    /\ provider = FreeProvider("job")
    /\ run = 1
    /\ previous = NoPrevious
    /\ rows = <<>>
    /\ variants = << <<>> >>
    /\ window = <<60, 300>>
    /\ pc = "call"
    /\ i = 0
    /\ vi = 0
    /\ search_variants = <<>>
    /\ top = EmptyEntry
    /\ phase1_score = 0
    /\ futures = <<>>
    /\ yielded = {}
    /\ info = NoInfo
    /\ scored = <<>>
    /\ found_excellent_match = FALSE
    /\ excellent = NoTrack
    /\ download_spec = NoSpec
    /\ best_track = NoTrack
    /\ best_file = NoFile
    /\ tracks = <<>>
    /\ downloaded = <<>>
    /\ not_found_songs = <<>>
    /\ archive = {}
    /\ progress = [current |-> 0, total |-> 0, message |-> "none"]
    /\ calls = NoCalls
    /\ events = {}

\* the variables of a job
job == <<mode, provider, run, previous, rows, variants, window, pc, i, vi, search_variants, top,
         phase1_score, futures, yielded, info, scored, found_excellent_match, excellent,
         download_spec, best_track, best_file, tracks, downloaded, not_found_songs, archive,
         progress, calls, events>>

\* the helper fn is called with one of the argument records
InitCall(fn, arguments) ==
    /\ NoJob
    /\ app = NoApp
    /\ call \in {[fn |-> fn, args |-> a, st |-> "called", ret |-> None] : a \in arguments}

\* the call returns ret
Returns(fn, ret) ==
    /\ call.fn = fn
    /\ call.st = "called"
    /\ call' = [call EXCEPT !.st = "returned", !.ret = ret]
    /\ UNCHANGED <<job, app>>

\* score_phase1_result(...) returns
Phase1Call ==
    Returns("score_phase1_result",
            score_phase1_result(call.args.vid_title, call.args.uploader, call.args.duration,
                                call.args.safe_title, call.args.safe_artist,
                                call.args.spotify_ms, call.args.window[1], call.args.window[2]))

\* calls of score_phase1_result
SpecScore == InitCall("score_phase1_result", ScoreArgs) /\ [][Phase1Call]_vars

\* the arguments of contains_keywords_in_order: titles and lists of up to
\* MaxKeywords keywords
KeywordTitles ==
    { <<"a","b","a">>, <<"A","."," ","b","-","A">>, <<"b","a"," ","a","b">>, <<"a","a">>, <<>> }

Keywords == { <<"a">>, <<"a","b">>, <<"b","a">> }

KeywordArgs ==
    [candidate_title : KeywordTitles, keywords : {<<>>} \cup SeqsUpTo(Keywords, MaxKeywords)]

\* contains_keywords_in_order(...) returns
KeywordsCall ==
    Returns("contains_keywords_in_order",
            contains_keywords_in_order(call.args.candidate_title, call.args.keywords))

\* calls of contains_keywords_in_order
SpecKeywords == InitCall("contains_keywords_in_order", KeywordArgs) /\ [][KeywordsCall]_vars

(***************************************************************************)
(* The server's progress tracking (app.py): two dictionaries of progress   *)
(* entries, one per batch download and one per CSV conversion, written by  *)
(* the thread that runs the job, read by the polling endpoints, and        *)
(* pruned by cleanup_old_progress whenever another job starts.             *)
(***************************************************************************)

\* an entry older than this many seconds is removed by the cleanup
PROGRESS_MAX_AGE == 3600

\* how many times the clock advances during one run of the server
MaxTicks == 2

\* how many downloads a batch request holds at most, and how many rows the
\* CSV file of a conversion has
MaxItems == 2

\* the identifiers uuid4 hands out, and the CSV files that were uploaded
BatchIds == {"d1"}

CsvNames == {"a.csv"}

\* d[k] = v on a dictionary
Put(d, k, v) == [x \in DOMAIN d \cup {k} |-> IF x = k THEN v ELSE d[x]]

\* the keys_to_remove of one dictionary at the time now
Old(d, now) == {k \in DOMAIN d : now - d[k].created_at > PROGRESS_MAX_AGE}

\* del d[key] for every key of keys_to_remove
Removed(d, keys) == [x \in DOMAIN d \ keys |-> d[x]]

\* both dictionaries after the cleanup: every entry older than
\* PROGRESS_MAX_AGE is removed, whatever its status
cleanup_old_progress(a) == [a EXCEPT !.csv_progress = Removed(@, Old(@, a.now)), !.download_progress = Removed(@, Old(@, a.now))]

\* no request was answered yet
NoResponse == [code |-> 0]

\* the server after start-up: both dictionaries empty, no thread running
InitApp ==
    /\ NoJob
    /\ call = NoCall
    /\ app = [now |-> 0,
              ticks |-> 0,
              csv_progress |-> << >>,
              download_progress |-> << >>,
              worker |-> [id \in BatchIds |-> [pc |-> "idle", idx |-> 0, n |-> 0]],
              converter |-> [f \in CsvNames |-> [pc |-> "idle", i |-> 0]],
              response |-> NoResponse]

\* time.time() moves on, by a second or by a whole PROGRESS_MAX_AGE
Tick ==
    /\ app.ticks < MaxTicks
    /\ \E d \in {1, PROGRESS_MAX_AGE} : app' = [app EXCEPT !.now = @ + d, !.ticks = @ + 1]
    /\ UNCHANGED <<job, call>>

\* POST /downloads/batch with n downloads: the cleanup, the new entry under
\* a fresh uuid, and the start of the worker thread
start_batch_download(id, n) ==
    /\ app.worker[id].pc = "idle"
    /\ LET a == cleanup_old_progress(app)
           entry == [current |-> 0,
                     total |-> n,
                     status |-> "downloading",
                     processed |-> 0,
                     failed |-> 0,
                     downloads |-> << >>,
                     created_at |-> app.now]
       IN  app' = [a EXCEPT !.download_progress = Put(@, id, entry),
                            !.worker[id] = [pc |-> IF n = 0 THEN "complete" ELSE "download",
                                            idx |-> 0,
                                            n |-> n]]
    /\ UNCHANGED <<job, call>>

\* one statement of the worker thread of the batch id.  A statement that
\* reads download_progress[download_id] after the entry was removed raises
\* KeyError; so do the handler of the inner try and the handler of the outer
\* one, which read it too, and the thread ends there.
download_worker(id) ==
    LET w == app.worker[id]
        e == app.download_progress[id]
        Step(entry, at, idx) == app' = [app EXCEPT !.download_progress[id] = entry, !.worker[id] = [pc |-> at, idx |-> idx, n |-> w.n]]
    IN  /\ w.pc \in {"download", "append_ok", "append_failed", "current", "status", "complete"}
        /\ IF id \notin DOMAIN app.download_progress
              THEN app' = [app EXCEPT !.worker[id].pc = "dead"]
              ELSE CASE w.pc = "download" ->
                            \/ Step([e EXCEPT !.processed = @ + 1], "append_ok", w.idx)
                            \/ Step([e EXCEPT !.failed = @ + 1], "append_failed", w.idx)
                     [] w.pc = "append_ok" ->
                            Step([e EXCEPT !.downloads = Append(@, TRUE)], "current", w.idx)
                     [] w.pc = "append_failed" ->
                            Step([e EXCEPT !.downloads = Append(@, FALSE)], "current", w.idx)
                     [] w.pc = "current" ->
                            Step([e EXCEPT !.current = w.idx + 1], "status", w.idx)
                     [] w.pc = "status" ->
                            Step([e EXCEPT !.status = "Downloading"],
                                 IF w.idx + 1 < w.n THEN "download" ELSE "complete",
                                 w.idx + 1)
                     [] w.pc = "complete" ->
                            Step([e EXCEPT !.status = "completed"], "done", w.idx)
        /\ UNCHANGED <<job, call>>

\* GET /downloads/progress/{download_id}, for an identifier that
\* start_batch_download returned: the entry itself, or 404
get_download_progress(id) ==
    /\ app.worker[id].pc # "idle"
    /\ app' = [app EXCEPT !.response =
                  IF id \in DOMAIN app.download_progress
                     THEN [code |-> 200, id |-> id, body |-> app.download_progress[id]]
                     ELSE [code |-> 404, id |-> id]]
    /\ UNCHANGED <<job, call>>

\* POST /csv/convert/{filename}: the cleanup and the new entry, then the
\* search of the file's rows, each reported through progress_callback, then
\* the final update.  A write to csv_progress[filename] after the entry was
\* removed raises KeyError and the request fails with status 500.
convert_csv_file(f) ==
    LET c == app.converter[f]
        e == app.csv_progress[f]
        a == cleanup_old_progress(app)
        entry == [current |-> 0,
                  total |-> 0,
                  status |-> "",
                  processed |-> 0,
                  not_found |-> 0,
                  created_at |-> app.now]
    IN  /\ \/ /\ c.pc \in {"idle", "done", "failed"}
              /\ app' = [a EXCEPT !.csv_progress = Put(@, f, entry),
                                  !.converter[f] = [pc |-> "searching", i |-> 0]]
           \/ /\ c.pc = "searching"
              /\ f \notin DOMAIN app.csv_progress
              /\ app' = [app EXCEPT !.converter[f].pc = "failed"]
           \/ /\ c.pc = "searching"
              /\ f \in DOMAIN app.csv_progress
              /\ c.i < MaxItems
              /\ app' = [app EXCEPT !.csv_progress[f] = [e EXCEPT !.current = c.i + 1,
                                                                  !.total = MaxItems,
                                                                  !.status = "Searched",
                                                                  !.processed = c.i + 1],
                                    !.converter[f].i = c.i + 1]
           \/ /\ c.pc = "searching"
              /\ f \in DOMAIN app.csv_progress
              /\ c.i = MaxItems
              /\ \E success_count \in 0 .. MaxItems :
                    app' = [app EXCEPT !.csv_progress[f] = [e EXCEPT !.processed = success_count,
                                                                    !.not_found = MaxItems - success_count,
                                                                    !.status = "completed"],
                                      !.converter[f].pc = "done"]
        /\ UNCHANGED <<job, call>>

NextApp ==
    \/ Tick
    \/ \E id \in BatchIds, n \in 0 .. MaxItems : start_batch_download(id, n)
    \/ \E id \in BatchIds : download_worker(id)
    \/ \E id \in BatchIds : get_download_progress(id)
    \/ \E f \in CsvNames : convert_csv_file(f)

SpecApp == InitApp /\ [][NextApp]_vars

(***************************************************************************)
(* Properties                                                              *)
(***************************************************************************)
Last(seq) == seq[Len(seq)]

\* the Track Numbers recorded in a list of not-found entries or of files
Numbers(seq) == {seq[k].track_number : k \in DOMAIN seq}

\* the row whose track is the k-th of tracks: the k-th row that is not in not_found_songs
RowOfTrack(k) ==
    CHOOSE j \in 0..Len(rows) :
        \/ j = 0 /\ Cardinality((1..Len(rows)) \ Numbers(not_found_songs)) < k
        \/ /\ j \in (1..Len(rows)) \ Numbers(not_found_songs)
           /\ Cardinality((1..j) \ Numbers(not_found_songs)) = k

\* C1: a playlist job that returns has recorded every input row exactly once: the
\* two lists together are as long as the input, every not-found entry is that of a
\* distinct row, and the tracks are those of the other rows, in order
C1_PlaylistPartition ==
    pc = "done" =>
        /\ Len(tracks) + Len(not_found_songs) = Len(rows)
        /\ Numbers(not_found_songs) \subseteq 1..Len(rows)
        /\ Cardinality(Numbers(not_found_songs)) = Len(not_found_songs)
        /\ \A k \in DOMAIN not_found_songs :
              LET row == rows[not_found_songs[k].track_number]
              IN  /\ not_found_songs[k].track_name = title(row)
                  /\ not_found_songs[k].artist_name = artist_primary(row)
                  /\ not_found_songs[k].album_name = album(row)
        /\ \A k \in DOMAIN tracks :
              /\ RowOfTrack(k) # 0
              /\ tracks[k].title = title(rows[RowOfTrack(k)])
              /\ tracks[k].artist = artist_primary(rows[RowOfTrack(k)])
              /\ tracks[k].album = album(rows[RowOfTrack(k)])

\* a job of two rows has returned with one row found and the other not found
C1_Witness ==
    /\ pc = "done"
    /\ Len(rows) = 2
    /\ rows[1] # rows[2]
    /\ Len(tracks) = 1
    /\ Numbers(not_found_songs) = {1}

\* C2: a download job that returns has recorded every input row exactly once: the
\* two lists together are as long as the input and every Track Number of the input
\* is in exactly one entry of the two lists
C2_DownloadPartition ==
    (mode = "download" /\ pc = "done") =>
        /\ Len(downloaded) + Len(not_found_songs) = Len(rows)
        /\ \A n \in 1..Len(rows) :
              Cardinality({k \in DOMAIN downloaded : downloaded[k].track_number = n})
              + Cardinality({k \in DOMAIN not_found_songs :
                                not_found_songs[k].track_number = n}) = 1

\* C3: no timeout or malformed answer of a search or of a metadata fetch makes the
\* job abort: it is taken as zero candidates and the job goes on
C3_NoAbort == pc # "aborted"

\* C4: within a (row, variant) whose top result scored 70 or more in Phase 1, no
\* wide search and no metadata fetch is issued
C4_ShortCircuit ==
    phase1_score >= Phase1Accept => (calls.wide = 0 /\ calls.fetch = 0)

\* a download job whose Phase 1 accepted the top result: one cheap search was issued
\* and the download of the variant is about to start
C4_Witness ==
    /\ mode = "download"
    /\ pc = "download"
    /\ phase1_score >= Phase1Accept
    /\ calls = [cheap |-> 1, wide |-> 0, fetch |-> 0]
    /\ download_spec = [kind |-> "url", url |-> Url(top)]

\* C5: a candidate scored 90 or more in Phase 2 is the last one scored for its
\* (row, variant): nothing is scored after it, the loop over the fetches has ended,
\* and that candidate is the result of the variant, then the track of the row
C5_EarlyExit ==
    /\ \A k \in DOMAIN scored : scored[k].score >= EarlyExit * Milli => k = Len(scored)
    /\ (scored # <<>> /\ Last(scored).score >= EarlyExit * Milli) =>
           /\ found_excellent_match
           /\ excellent = Last(scored).track
           /\ pc \in {"shutdown", "row_end", "loop", "for_variant", "done"}
           /\ pc = "row_end" => best_track = excellent
           /\ pc \in {"loop", "for_variant", "done"} =>
                 (tracks # <<>> /\ Last(tracks) = excellent)

\* the early exit was taken while the fetch of a candidate that passes the filters
\* and scores higher had finished and was never handed to the loop
C5_Witness ==
    /\ pc = "shutdown"
    /\ found_excellent_match
    /\ \E k \in DOMAIN futures :
          /\ k \notin yielded
          /\ futures[k].st = "finished"
          /\ futures[k].entry.id # ""
          /\ PassesFilters(futures[k].entry, rows[i], search_variants[vi],
                           duration_min, duration_max)
          /\ Phase2Score(futures[k].entry, rows[i]) > Last(scored).score

\* C6: under a fixed provider the second conversion of a CSV returns the tracks and
\* the not-found entries the first one returned
C6_Deterministic ==
    (run = 2 /\ pc = "done") =>
        /\ tracks = previous.tracks
        /\ not_found_songs = previous.not_found_songs

\* TRUE when the duration of a candidate is outside the window of the job
OutOfWindow(duration) == duration < duration_min \/ duration > duration_max

\* the Phase-1 score of every (row, top entry) of the catalogue with no points for
\* the duration: int() of the title and artist points
TitleAndArtistPoints ==
    [row \in AllRows, t \in Videos \cup {EmptyEntry} |->
        LET tp == TitlePoints(t.title, safe_title(row))
            ap == ArtistPoints(t.uploader, safe_artist(row))
        IN  (tp[1] * ap[2] + ap[1] * tp[2]) \div (tp[2] * ap[2])]

\* C7: a top result whose duration is outside the window has the Phase-1 score of
\* its title and artist alone; no candidate outside the window is in scored or is
\* the excellent match, and a row's track outside the window was accepted by Phase 1
C7_DurationGate ==
    /\ (pc \in {"phase2", "fetching", "shutdown", "unwind", "row_end", "download"}
          /\ OutOfWindow(top.duration)) => phase1_score = TitleAndArtistPoints[rows[i], top]
    /\ \A k \in DOMAIN scored : ~OutOfWindow(scored[k].track.duration)
    /\ excellent # NoTrack => ~OutOfWindow(excellent.duration)
    /\ (pc = "row_end" /\ best_track # NoTrack /\ OutOfWindow(best_track.duration)) =>
           (phase1_score >= Phase1Accept /\ calls.wide = 0)

\* the first row was given a track outside the window by Phase 1 on title and
\* artist alone; for the same row again, Phase 2 fetched that video and dropped it
\* while another candidate was scored
C7_Witness ==
    /\ i = 2
    /\ rows[1] = rows[2]
    /\ tracks # <<>>
    /\ OutOfWindow(tracks[1].duration)
    /\ pc = "shutdown"
    /\ \E k \in yielded : futures[k].entry.duration = tracks[1].duration
    /\ scored # <<>>

\* C8: for a row whose artist is "Unknown" the fetched metadata that passes the
\* duration, shorts, variant and keyword filters is scored whatever its uploader
C8_UnknownBypass ==
    (/\ pc \in {"fetching", "shutdown"}
     /\ info # NoInfo
     /\ lower(safe_artist(rows[i])) = unknown
     /\ DurationFilter(info, duration_min, duration_max)
     /\ ShortsFilter(info)
     /\ VariantFilter(info, search_variants[vi])
     /\ KeywordFilter(info, rows[i]))
        => (scored # <<>> /\ Last(scored).track = TrackInfo(rows[i], info))

\* C9: a row recorded as not found with the age-restricted reason is recorded in
\* not_found_songs once, with no other reason
C9_AgeRestrictedOnly ==
    \A k, j \in DOMAIN not_found_songs :
        (/\ not_found_songs[k].error = "Age-restricted video"
         /\ not_found_songs[j].track_number = not_found_songs[k].track_number) => j = k

\* TRUE when the row numbered n is among the downloaded files
Found(files, n) == \E k \in DOMAIN files : files[k].track_number = n

\* C10: a row is downloaded in the job without the removed row exactly when it was
\* downloaded in the job with it
C10_RowIndependence ==
    (run = 2 /\ pc = "done") =>
        \A n \in 1..Len(rows) :
            Found(downloaded, n)
                <=> Found(previous.downloaded, IF n < previous.removed THEN n ELSE n + 1)

\* the reason of the closed set that an 'Error' text of the code stands for
ReasonOf(error) ==
    IF error = "Age-restricted video" THEN "age_restricted" ELSE "no_acceptable_match"

\* C11: the row a playlist job has just recorded as not found carries no_candidates
\* when none of its searches listed anything, and no_acceptable_match when a wide
\* search listed candidates
C11_Reasons ==
    (pc = "loop" /\ not_found_songs # <<>> /\ Last(not_found_songs).track_number = i) =>
        /\ events = {} => ReasonOf(Last(not_found_songs).error) = "no_candidates"
        /\ "candidates" \in events =>
              ReasonOf(Last(not_found_songs).error) = "no_acceptable_match"

\* C12: once the download of a candidate accepted for a variant of the row has ended
\* with an error other than the age restriction, the row is not downloaded
C12_RowFailure ==
    (mode = "download" /\ "failed" \in events) => ~Found(downloaded, i)

\* C13: once the top result of a variant has scored 70 or more in Phase 1 the row
\* ends as found with that result: no further variant is started, a playlist job
\* records a track with the url and the duration of the top result, and a download
\* job records the file of the row
C13_Phase1Accept ==
    (phase1_score >= Phase1Accept /\ vi >= 1 /\ pc # "aborted") =>
        /\ pc \in {"download", "row_end", "loop", "done"}
        /\ (mode = "playlist" /\ pc = "row_end") =>
              (best_track.url = Url(top) /\ best_track.duration = top.duration)
        /\ (mode = "playlist" /\ pc \in {"loop", "done"}) =>
              /\ tracks # <<>>
              /\ Last(tracks).url = Url(top)
              /\ Last(tracks).duration = top.duration
        /\ (mode = "download" /\ pc \in {"row_end", "loop", "done"}) =>
              Found(downloaded, i)

\* C14: once the wide search of a variant has listed nothing, or its fetches have
\* ended with no candidate kept, the variant is over with nothing to download and
\* the next variant is due
C14_NoSurvivor ==
    (/\ calls.wide >= 1
     /\ scored = <<>>
     /\ pc \notin {"fetching", "shutdown", "unwind", "aborted"})
        => (pc = "for_variant" /\ download_spec = NoSpec)

\* the video of the catalogue a track_info was built from
VideoOf(track) == CHOOSE v \in Videos : v.id # "" /\ Url(v) = track.url

\* the Phase-2 score, in thousandths, that a video has for a row: 100 when its title
\* starts with the row's title else 80, less the distance to the reference duration
ExpectedScore ==
    [row \in AllRows, v \in Videos |->
        (IF StartsWith(lower(v.title), lower(StripPunct(row.track_name))) THEN 100 * Milli
         ELSE 80 * Milli)
        - (IF row.duration_ms \in Nat \ {0} THEN Abs(v.duration * Milli - row.duration_ms)
           ELSE 0)]

\* C15: every survivor of Phase 2 carries the score 100 or 80 less the duration
\* distance, and when survivors exist and none reaches 90 the track accepted for the
\* variant is a survivor no other survivor outscores
C15_MaxSurvivor ==
    /\ \A k \in DOMAIN scored :
          scored[k].score = ExpectedScore[rows[i], VideoOf(scored[k].track)]
    /\ (/\ pc = "row_end"
        /\ scored # <<>>
        /\ \A k \in DOMAIN scored : scored[k].score < EarlyExit * Milli)
          => \E k \in DOMAIN scored :
                /\ best_track = scored[k].track
                /\ \A j \in DOMAIN scored : scored[j].score <= scored[k].score

\* a variant ends with two survivors below 90 and the second, the better, accepted
C15_Witness ==
    /\ pc = "row_end"
    /\ Len(scored) >= 2
    /\ \A k \in DOMAIN scored : scored[k].score < EarlyExit * Milli
    /\ scored[1].score < scored[2].score
    /\ best_track = scored[2].track

\* C16: once a candidate scoring 90 or more has been accepted the job goes on at
\* once: leaving the executor does not wait for a fetch, and no fetch of the
\* variant is still running
C16_NoStragglers ==
    (pc = "shutdown" /\ found_excellent_match) =>
        /\ ENABLED ExecutorExit
        /\ \A k \in DOMAIN futures : futures[k].st # "running"

\* C17: at most 3 fetches of a variant run at a time, no fetch that fails makes the
\* job leave the loop over the fetches, and unless a candidate scoring 90 or more
\* ended it that loop has handled the result of every fetch of the variant
C17_FetchIsolation ==
    /\ Cardinality({k \in DOMAIN futures : futures[k].st = "running"}) <= FanOut
    /\ pc # "unwind"
    /\ (pc = "shutdown" /\ ~found_excellent_match) => yielded = DOMAIN futures

\* the rows whose title contains "instrumental" in any case
TitledInstrumental ==
    {row \in AllRows :
        \E k \in 0..Len(row.track_name) : MatchAt(lower(row.track_name), instrumental, k)}

\* the order the variants of a row are due in: the configured one, after
\* "instrumental" when the title of the row contains that word in any case
ExpectedVariants(row) ==
    IF row \in TitledInstrumental THEN <<instrumental>> \o variants ELSE variants

\* C18: the variants of a row are the configured ones in their order, preceded by
\* "instrumental" exactly when the title contains it; they are started one after
\* the other from the first, and one is started only while no result has been
\* accepted for the row
C18_VariantOrder ==
    [][/\ i' >= 1 => search_variants' = ExpectedVariants(rows'[i'])
       /\ vi' # vi => vi' = (IF i' # i THEN 0 ELSE vi + 1)
       /\ vi' = vi + 1 => best_track = NoTrack]_vars

\* the second variant of a row titled "... Instrumental" is searched after
\* "instrumental", the first, gave no result
C18_Witness ==
    /\ i >= 1
    /\ rows[i] = RowInst
    /\ search_variants[1] = instrumental
    /\ vi = 2
    /\ pc = "phase1"
    /\ best_track = NoTrack

\* C19: every notification of a job carries the number of rows as total and the
\* number of the row in hand, or of the row before it, as current, and the last
\* notification of a job that has ended carries current = total
C19_Progress ==
    /\ progress.message # "none" =>
          /\ progress.total = Len(rows)
          /\ progress.current \in {i - 1, i} \cap (1..Len(rows))
    /\ (pc \in {"done", "aborted"} /\ progress.message # "none") =>
          progress.current = progress.total

\* C20: every not-found entry carries the position of a row taken so far and the
\* title, primary artist and album of that row; the positions of the entries ascend;
\* and the k-th track carries the title, primary artist and album of the k-th row
\* that has no not-found entry
C20_Ordinals ==
    /\ \A k \in DOMAIN not_found_songs :
          LET n == not_found_songs[k].track_number
          IN  /\ n \in 1..i
              /\ not_found_songs[k].track_name = title(rows[n])
              /\ not_found_songs[k].artist_name = artist_primary(rows[n])
              /\ not_found_songs[k].album_name = album(rows[n])
    /\ \A k, j \in DOMAIN not_found_songs :
          k < j => not_found_songs[k].track_number < not_found_songs[j].track_number
    /\ \A k \in DOMAIN tracks :
          LET n == RowOfTrack(k)
          IN  /\ n \in 1..i
              /\ tracks[k].title = title(rows[n])
              /\ tracks[k].artist = artist_primary(rows[n])
              /\ tracks[k].album = album(rows[n])

\* two rows of different titles are found, each by a video whose own title or
\* uploader is not the row's, and the tracks carry the rows' titles in input order
C20_Witness ==
    /\ pc = "done"
    /\ Len(tracks) = 2
    /\ tracks[1].title # tracks[2].title
    /\ \E k \in DOMAIN tracks :
          VideoOf(tracks[k]).title # tracks[k].title
    /\ \E k \in DOMAIN tracks :
          VideoOf(tracks[k]).uploader # tracks[k].artist

\* the number of the words of phrase that occur in text
WordsFound(phrase, text) ==
    Cardinality({k \in DOMAIN split(phrase) : Contains(text, split(phrase)[k])})

\* the title component of a call, as <<numerator, denominator>>
TitleComponent(a) ==
    LET cand == lower(a.vid_title)
        want == lower(a.safe_title)
    IN  IF StartsWith(cand, want) THEN <<40, 1>>
        ELSE IF Contains(cand, want) THEN <<30, 1>>
        ELSE IF split(want) = <<>> THEN <<0, 1>>
        ELSE <<20 * WordsFound(want, cand), Len(split(want))>>

\* the artist component of a call, as <<numerator, denominator>>
ArtistComponent(a) ==
    LET chan == lower(a.uploader)
        want == lower(a.safe_artist)
    IN  IF want = <<>> \/ want = unknown THEN <<0, 1>>
        ELSE IF Contains(chan, want) THEN <<30, 1>>
        ELSE IF split(want) = <<>> THEN <<0, 1>>
        ELSE <<15 * WordsFound(want, chan), Len(split(want))>>

\* the duration component of a call
DurationComponent(a) ==
    LET known == a.spotify_ms # None /\ a.spotify_ms # 0
        diff  == Abs(a.duration * Milli - a.spotify_ms)
    IN  IF a.duration < a.window[1] \/ a.duration > a.window[2] THEN 0
        ELSE 20 + (IF known /\ diff <= 5 * Milli THEN 10
                   ELSE IF known /\ diff <= 10 * Milli THEN 5 ELSE 0)

\* the first "Yesterday" scenario
ScenarioRemastered ==
    [vid_title |-> Sample.YesterdayRemastered, uploader |-> Sample.TheBeatles, duration |-> 126,
     safe_title |-> Sample.Yesterday, safe_artist |-> Sample.TheBeatles, spotify_ms |-> 125000,
     window |-> <<60, 300>>]

\* the second "Yesterday" scenario
ScenarioCover ==
    [vid_title |-> Sample.YesterdayCover, uploader |-> Sample.RandomChannel, duration |-> 400,
     safe_title |-> Sample.Yesterday, safe_artist |-> Sample.TheBeatles, spotify_ms |-> 125000,
     window |-> <<60, 300>>]

\* C21 as stated: the two "Yesterday" scenarios score 100 and 30
C21_Scenarios ==
    (call.fn = "score_phase1_result" /\ call.st = "returned") =>
        /\ call.args = ScenarioRemastered => call.ret = 100
        /\ call.args = ScenarioCover => call.ret = 30

\* C21: score_phase1_result returns the whole part of the sum of the title, the
\* artist and the duration component, each computed from its own arguments alone;
\* the two "Yesterday" scenarios score 100 and 40
C21_Components ==
    (call.fn = "score_phase1_result" /\ call.st = "returned") =>
        LET t == TitleComponent(call.args)
            a == ArtistComponent(call.args)
            d == DurationComponent(call.args)
        IN  /\ call.ret * t[2] * a[2] <= t[1] * a[2] + a[1] * t[2] + d * t[2] * a[2]
            /\ (call.ret + 1) * t[2] * a[2] > t[1] * a[2] + a[1] * t[2] + d * t[2] * a[2]
            /\ call.args = ScenarioRemastered => call.ret = 100
            /\ call.args = ScenarioCover => call.ret = 40

\* a call whose three components are 13 1/3 (two of three title words), 7 1/2 (one
\* of two artist words) and 25 (6 s from the reference) has returned 45
C21_Witness ==
    /\ call.fn = "score_phase1_result"
    /\ call.st = "returned"
    /\ call.args.vid_title = Sample.LaYo
    /\ call.args.safe_title = Sample.YoLaTi
    /\ call.args.uploader = Sample.BeatlesFan
    /\ call.args.safe_artist = Sample.TheBeatles
    /\ call.args.duration = 131
    /\ call.args.spotify_ms = 125000
    /\ call.ret = 45

\* C22: what score_phase1_result returns is an integer from 0 to 100
C22_Range ==
    (call.fn = "score_phase1_result" /\ call.st = "returned") => call.ret \in 0..100

\* a call has returned 100, the most
C22_Witness ==
    /\ call.fn = "score_phase1_result"
    /\ call.st = "returned"
    /\ call.ret = 100

\* C23: a top result that Phase 1 accepts for a (row, variant) passes every filter
\* of Phase 2 for that row, variant and window
C23_FastPath ==
    (phase1_score >= Phase1Accept /\ top \in Videos) =>
        PassesFilters(top, rows[i], search_variants[vi], window[1], window[2])

\* TRUE when at is the list of the positions of the greedy leftmost matches of the
\* keywords in txt: each keyword occurs at its position, which is the first one at
\* or after the end of the match before it
GreedyMatches(txt, keywords, at) ==
    \A k \in DOMAIN keywords :
        LET from == IF k = 1 THEN 0 ELSE at[k - 1] + Len(keywords[k - 1])
        IN  /\ at[k] >= from
            /\ MatchAt(txt, keywords[k], at[k])
            /\ \A idx \in from..(at[k] - 1) : ~MatchAt(txt, keywords[k], idx)

\* C24: contains_keywords_in_order returns TRUE exactly when the keywords have
\* greedy leftmost matches, in their order and without overlap, in the normalized
\* title; for no keywords it returns TRUE
C24_KeywordsInOrder ==
    (call.fn = "contains_keywords_in_order" /\ call.st = "returned") =>
        LET txt      == normalize(call.args.candidate_title)
            keywords == call.args.keywords
        IN  /\ call.ret <=> \E at \in [DOMAIN keywords -> 0..Len(txt)] :
                               GreedyMatches(txt, keywords, at)
            /\ keywords = <<>> => call.ret

\* "ab" then "ba" are not found in "aba", where they overlap
C24_Witness ==
    /\ call.fn = "contains_keywords_in_order"
    /\ call.st = "returned"
    /\ call.args.candidate_title = <<"a","b","a">>
    /\ call.args.keywords = << <<"a","b">>, <<"b","a">> >>
    /\ call.ret = FALSE

\* C25: the duration of every track of a playlist job lies within the window of the job
C25_TracksInWindow ==
    mode = "playlist" =>
        \A k \in DOMAIN tracks :
            tracks[k].duration >= duration_min /\ tracks[k].duration <= duration_max

\* for every row and video: does the title of the video start with the row's
TitleStarts ==
    [row \in AllRows, v \in Videos |->
        StartsWith(lower(v.title), lower(StripPunct(row.track_name)))]

\* TRUE when the video of a scored entry may have scored 90 or more for the row:
\* its title starts with the row's title and its duration is no more than 10 s from
\* the reference duration, if the row has one that is not 0
MayBeExcellent(row, v) ==
    /\ TitleStarts[row, v]
    /\ row.duration_ms \in Nat \ {0} => Abs(v.duration * Milli - row.duration_ms) <= 10 * Milli

\* C26: a scored candidate has 90 or more only if its title starts with the row's
\* title and its duration is within 10 s of a known reference; one whose title does
\* not start with the row's title has no more than 80; and the candidate an early
\* exit has accepted is of the first kind (while a variant of the row is in hand)
C26_EarlyExitOnlyIf ==
    vi >= 1 =>
        /\ \A k \in DOMAIN scored :
              LET v == VideoOf(scored[k].track)
              IN  /\ scored[k].score >= EarlyExit * Milli => MayBeExcellent(rows[i], v)
                  /\ ~TitleStarts[rows[i], v] => scored[k].score <= 80 * Milli
        /\ found_excellent_match => MayBeExcellent(rows[i], VideoOf(excellent))

\* a download job has left the fetches early for a video 1 s from the reference
\* of the row
C26_Witness ==
    /\ mode = "download"
    /\ pc = "shutdown"
    /\ found_excellent_match
    /\ rows[i] = RowYo
    /\ VideoOf(excellent) = VidA

\* C27: no step of a job changes the variants it was given, and the variants of a
\* row whose title does not contain "instrumental" do not hold "instrumental",
\* whatever the rows before it
C27_VariantsFrame ==
    [][/\ variants' = variants
       /\ (i' >= 1 /\ rows'[i'] \notin TitledInstrumental) =>
             \A k \in DOMAIN search_variants' : search_variants'[k] # instrumental]_vars

\* a download job searches a row titled "Yo", with the variants as given, after a
\* row titled "Yo Instrumental"
C27_Witness ==
    /\ mode = "download"
    /\ i = 2
    /\ rows[1] = RowInst
    /\ rows[2] = RowYo
    /\ pc = "phase1"
    /\ search_variants = variants

\* C28: a job whose calls all return ends; a row has at most one variant more than
\* the configured ones, a variant at most one cheap search, one wide search and 3
\* fetches; rows are taken one after the other, none twice, and at the end every
\* row is in one of the two lists
C28_Termination ==
    /\ [](/\ vi <= Len(variants) + 1
          /\ calls.cheap <= 1
          /\ calls.wide <= 1
          /\ calls.fetch <= 3)
    /\ [][i' = i \/ i' = i + 1]_vars
    /\ [](pc = "done" => Len(tracks) + Len(not_found_songs) = Len(rows))
    /\ <>(pc = "done")

\* a job of two rows has ended, each row in one list, after a wide search that
\* listed five videos and had three of them fetched
C28_Witness ==
    /\ pc = "done"
    /\ provider = StubLong
    /\ Len(rows) = 2
    /\ Len(tracks) + Len(not_found_songs) = 2
    /\ calls.wide = 1
    /\ calls.fetch = 3

\* C29: whatever get_download_progress returns for a batch job, processed +
\* failed equals the length of its downloads list and is at most total, and a
\* job whose status is "completed" has current = total = processed + failed.
C29_BatchProgress ==
    app.response.code = 200 =>
        LET body == app.response.body
        IN  /\ body.processed + body.failed = Len(body.downloads)
            /\ body.processed + body.failed <= body.total
            /\ body.status = "completed" =>
                    /\ body.current = body.total
                    /\ body.total = body.processed + body.failed

\* C30: the progress entry of a job that is still running is in its
\* dictionary: the cleanup of another job's start removes no such entry, so
\* no update of the running thread meets a missing entry.
C30_EntryKept ==
    /\ \A id \in BatchIds :
            app.worker[id].pc \notin {"idle", "done", "dead"} => id \in DOMAIN app.download_progress
    /\ \A f \in CsvNames :
            app.converter[f].pc = "searching" => f \in DOMAIN app.csv_progress

====
